---- MODULE Spec2Model ----
(***************************************************************************)
(* Verification gate, webhook ingestor and interaction throttle of the     *)
(* bottest32 bot, as state machines.                                       *)
(*                                                                         *)
(*  Spec         gate and webhook handlers interleaving at their awaits    *)
(*  SpecSeq      the same handlers, one running to completion at a time    *)
(*  SpecThrottle the ThrottlingMiddleware alone                            *)
(***************************************************************************)
EXTENDS Integers, Sequences, FiniteSets, Bags, TLC

VARIABLES
    db,               \* the users table: telegram_id -> None | Some(record)
    tasks,            \* the running handlers, each with its position and locals
    started,          \* handlers started so far
    welcome,          \* history: run_start_flow invocations per user
    hist,             \* history per user, see HistInit
    last,             \* history: the sub_completed delivery that has just completed
    user_timestamps,  \* ThrottlingMiddleware._user_timestamps
    clock,            \* the event loop's monotonic clock, in ticks
    calls,            \* throttle calls waiting for the lock
    log,              \* history: per user, the throttle's decisions in order
    audit_pc,         \* run_referral_audit: the await the loop is at
    audit_users,      \* run_referral_audit: the users the for loop has yet to visit
    audit_hist,       \* history of the audit loop, see AuditHistInit
    seen_payload,     \* the webhook payload the extractors were last applied to
    extracted         \* what the extractors returned for it

vars == <<db, tasks, started, welcome, hist, last, user_timestamps, clock, calls, log,
          audit_pc, audit_users, audit_hist, seen_payload, extracted>>

gateVars == <<db, tasks, started, welcome, hist, last>>

auditVars == <<audit_pc, audit_users, audit_hist>>

extractVars == <<seen_payload, extracted>>

throttleVars == <<user_timestamps, clock, calls, log>>

-----------------------------------------------------------------------------
(* Bounds *)

MaxEvents == 4
MaxRaces == 2
MaxClock == 7
MaxCalls == 3
MaxRuns == 2

Users == {1, 2}
Slots == {1, 2}

-----------------------------------------------------------------------------
(* Optional values: Python's None and a present value *)

None == <<>>
Some(x) == <<x>>
Val(m) == m[1]

-----------------------------------------------------------------------------
(* Strings are sequences of characters *)

Digits == {"0", "1", "2", "3", "4", "5", "6", "7", "8", "9"}

DigitVal(c) ==
    CASE c = "0" -> 0 [] c = "1" -> 1 [] c = "2" -> 2 [] c = "3" -> 3
      [] c = "4" -> 4 [] c = "5" -> 5 [] c = "6" -> 6 [] c = "7" -> 7
      [] c = "8" -> 8 [] c = "9" -> 9

IsSpace(c) == c = " "

RECURSIVE LStrip(_)
LStrip(s) == IF s # <<>> /\ IsSpace(Head(s)) THEN LStrip(Tail(s)) ELSE s

RECURSIVE RStrip(_)
RStrip(s) ==
    IF s # <<>> /\ IsSpace(s[Len(s)]) THEN RStrip(SubSeq(s, 1, Len(s) - 1)) ELSE s

Strip(s) == RStrip(LStrip(s))

StartsWith(s, p) == Len(s) >= Len(p) /\ SubSeq(s, 1, Len(p)) = p

\* length of the leading run of non-space characters
RECURSIVE TokenLen(_)
TokenLen(s) == IF s = <<>> \/ IsSpace(Head(s)) THEN 0 ELSE 1 + TokenLen(Tail(s))

\* str.split(): the whitespace-separated words
RECURSIVE Split(_)
Split(s) ==
    LET t == LStrip(s)
        n == TokenLen(t)
    IN  IF t = <<>> THEN <<>>
        ELSE <<SubSeq(t, 1, n)>> \o Split(SubSeq(t, n + 1, Len(t)))

\* str.split(maxsplit=1): the first word, and the rest after the whitespace run
SplitMax1(s) ==
    LET t == LStrip(s)
        n == TokenLen(t)
        rest == LStrip(SubSeq(t, n + 1, Len(t)))
    IN  IF t = <<>> THEN <<>>
        ELSE IF rest = <<>> THEN <<SubSeq(t, 1, n)>>
        ELSE <<SubSeq(t, 1, n), rest>>

LowerChar(c) ==
    CASE c = "R" -> "r" [] c = "E" -> "e" [] c = "F" -> "f" [] OTHER -> c

Lower(s) == [i \in 1..Len(s) |-> LowerChar(s[i])]

IsDigit(s) == s # <<>> /\ \A i \in 1..Len(s) : s[i] \in Digits

RECURSIVE ToInt(_)
ToInt(s) ==
    IF s = <<>> THEN 0 ELSE 10 * ToInt(SubSeq(s, 1, Len(s) - 1)) + DigitVal(s[Len(s)])

-----------------------------------------------------------------------------
(* The repository (database.py), by its interface *)

NewRecord(referred_by, username) ==
    [flyer_verified |-> FALSE, referred_by |-> referred_by, username |-> username,
     balance |-> 0, is_subscribed |-> FALSE]

get_user(d, id) == d[id]

\* create as insert-or-replace
create_user_replace(d, id, referred_by, username) ==
    [d EXCEPT ![id] = Some(NewRecord(referred_by, username))]

create_user(d, id, referred_by, username) ==
    IF d[id] = None THEN [d EXCEPT ![id] = Some(NewRecord(referred_by, username))]
    ELSE d

set_flyer_verified(d, id, v) ==
    IF d[id] = None THEN d
    ELSE [d EXCEPT ![id] = Some([Val(d[id]) EXCEPT !.flyer_verified = v])]

update_username(d, id, username) ==
    IF d[id] = None THEN d
    ELSE [d EXCEPT ![id] = Some([Val(d[id]) EXCEPT !.username = Some(username)])]

assign_referrer(d, id, referrer) ==
    IF d[id] = None \/ Val(d[id]).referred_by # None THEN d
    ELSE [d EXCEPT ![id] = Some([Val(d[id]) EXCEPT !.referred_by = Some(referrer)])]

-----------------------------------------------------------------------------
(* Inbound interactions (aiogram events) *)

Message(text) == [type |-> "Message", text |-> text, has_message |-> TRUE]
CallbackQuery(has_message) ==
    [type |-> "CallbackQuery", text |-> None, has_message |-> has_message]

\* (event.text or "")
TextOrEmpty(event) == IF event.text = None THEN <<>> ELSE Val(event.text)

S_start == <<"/", "s", "t", "a", "r", "t">>
S_ref == <<"r", "e", "f">>

\* FlyerCheckMiddleware._extract_referred_by with the self check left out
extract_referred_by_no_self_check(event, telegram_id) ==
    IF event.type # "Message" THEN None
    ELSE LET text == Strip(TextOrEmpty(event))
             parts == SplitMax1(text)
         IN  IF ~StartsWith(text, S_start) THEN None
             ELSE IF Len(parts) < 2 THEN None
             ELSE LET arg == Split(Strip(parts[2]))[1]
                      suffix == SubSeq(arg, 4, Len(arg))
                  IN  IF ~StartsWith(Lower(arg), S_ref) THEN None
                      ELSE IF ~IsDigit(suffix) THEN None
                      ELSE Some(ToInt(suffix))

\* FlyerCheckMiddleware._extract_referred_by
extract_referred_by(event, telegram_id) ==
    IF event.type # "Message" THEN None
    ELSE LET text == Strip(TextOrEmpty(event))
             parts == SplitMax1(text)
         IN  IF ~StartsWith(text, S_start) THEN None
             ELSE IF Len(parts) < 2 THEN None
             ELSE LET arg == Split(Strip(parts[2]))[1]
                      suffix == SubSeq(arg, 4, Len(arg))
                  IN  IF ~StartsWith(Lower(arg), S_ref) THEN None
                      ELSE IF ~IsDigit(suffix) THEN None
                      ELSE IF ToInt(suffix) = telegram_id THEN None
                      ELSE Some(ToInt(suffix))

\* _trigger_start with the start-command and chat-target returns left out
trigger_start_runs_always(event) == TRUE

\* FlyerCheckMiddleware._trigger_start: does it reach run_start_flow?
\* (bot and settings are always in the dispatcher's data, main.py:37)
trigger_start_runs(event) ==
    IF event.type = "Message" THEN ~StartsWith(TextOrEmpty(event), S_start)
    ELSE IF event.type = "CallbackQuery" /\ event.has_message THEN TRUE
    ELSE FALSE

Texts ==
    { S_start \o <<" ">> \o S_ref \o <<"1">>,
      S_start \o <<" ">> \o S_ref \o <<"2">>,
      S_start \o <<" ", "R", "E", "F", "3">>,
      S_start \o <<" ", " ">> \o S_ref \o <<"1", " ", "x">>,
      <<" ">> \o S_start \o <<" ">> \o S_ref \o <<"2">>,
      S_start \o <<" ">> \o S_ref,
      S_start \o <<" ">> \o S_ref \o <<"x">>,
      S_start \o <<" ", "x", "1">>,
      S_start \o S_ref \o <<"1">>,
      S_start,
      S_ref \o <<"1">>,
      <<"h", "i">> }

Events ==
    {Message(Some(t)) : t \in Texts} \cup {Message(None)}
        \cup {CallbackQuery(b) : b \in BOOLEAN}

S_ann == <<"a", "n", "n">>
S_bob == <<"b", "o", "b">>

\* event_from_user.username: one user has a Telegram username, one has none
UsernameOf == [id \in Users |-> IF id = 1 THEN Some(S_ann) ELSE None]

\* history: the kind of interaction
EventKind(event) ==
    IF event.type = "Message"
    THEN (IF StartsWith(TextOrEmpty(event), S_start) THEN "start_message" ELSE "message")
    ELSE (IF event.has_message THEN "callback" ELSE "bare_callback")

\* what the gate reads from an interaction of user id: the referral candidate
\* (line 62), the username (line 63) and whether _trigger_start would run
GateInput(event, username, id) ==
    [referred_by |-> extract_referred_by(event, id),
     username |-> username,
     runs |-> trigger_start_runs(event),
     \* history: the kind of interaction, and whether its text carried the
     \* sender's own id as its code
     event_kind |-> EventKind(event),
     self_ref |-> extract_referred_by_no_self_check(event, id) = Some(id)]

GateInputs == [id \in Users |-> {GateInput(e, UsernameOf[id], id) : e \in Events}]

-----------------------------------------------------------------------------
(* Handler tasks.  The running handlers are a bag of records, each holding  *)
(* a handler's position and locals.  A step of a task is the code from one  *)
(* await up to and including the effect of the next awaited call.           *)

NewTask ==
    [kind |-> "none", pc |-> "none", id |-> 0,
     referred_by |-> None, username |-> None, runs |-> FALSE,   \* the input
     user_record |-> None, was_verified |-> FALSE, is_allowed |-> "none",
     etype |-> "none", chat_id |-> 0, already_verified |-> FALSE,
     result |-> "none",
     \* history of this handler
     fired |-> 0, flipped |-> FALSE, after_abort |-> FALSE, pre |-> None,
     pre_referrer |-> None, unsub |-> FALSE, prompt |-> None, sent |-> FALSE,
     envelope_abort |-> None, prev |-> None, self_ref |-> FALSE,
     event_kind |-> "none", carried |-> None, failed |-> "none"]

HistInit == [aborted |-> FALSE, reset |-> FALSE, denied |-> None]

\* the handlers that may run at the same time
MaxRunning == Cardinality(Slots)

Running == BagToSet(tasks)

Quiet == tasks = EmptyBag

Spawn(t) == tasks (+) SetToBag({t})
Become(t, u) == (tasks (-) SetToBag({t})) (+) SetToBag({u})

\* lines 100-107 and 140-147 left out: no referrer is assigned later on
NeedAssignNever(t) == FALSE

\* lines 100-104 and 140-144: is the referral candidate to be assigned?
NeedAssign(t) ==
    /\ t.referred_by # None
    /\ Val(t.referred_by) # t.id
    /\ Val(t.user_record).referred_by = None

\* lines 108 and 135: is the username to be updated?
NeedUsername(t) ==
    t.username # None /\ t.username # Val(t.user_record).username

\* the record a referral candidate points at, for the frame conditions
ReferrerRecord(d, ref) ==
    IF ref # None /\ Val(ref) \in Users THEN d[Val(ref)] ELSE None

\* lines 54-61: the interaction arrives and the gate asks for the user record
GateStart(limit) ==
    /\ BagCardinality(tasks) < MaxRunning
    /\ started < limit
    /\ \E id \in Users : \E in \in GateInputs[id] :
         tasks' = Spawn([NewTask EXCEPT !.kind = "gate", !.pc = "get_user", !.id = id,
                                        !.referred_by = in.referred_by,
                                        !.username = in.username, !.runs = in.runs,
                                        !.self_ref = in.self_ref,
                                        !.event_kind = in.event_kind])
    /\ started' = started + 1
    /\ last' = None
    /\ UNCHANGED <<db, welcome, hist>>

\* lines 64-65 left out: a verified user is checked again
IsVerifiedNever(rec) == FALSE

\* line 64: user_record and user_record.flyer_verified
IsVerified(rec) == rec # None /\ Val(rec).flyer_verified

\* history: the referrer whose record an evaluation must leave alone: the
\* candidate carried over from a denied attempt, or else its own
Referrer(h, t) == IF h.denied # None THEN h.denied ELSE t.referred_by

\* lines 61-67: the record arrives; a verified user is admitted at once
GateGetUser(t) ==
    LET rec == get_user(db, t.id)
    IN  /\ t.kind = "gate" /\ t.pc = "get_user"
        /\ tasks' = Become(t,
              [t EXCEPT !.user_record = rec,
                        !.was_verified = IF rec # None THEN Val(rec).flyer_verified
                                         ELSE FALSE,
                        !.pc = IF IsVerified(rec) THEN "handler" ELSE "check",
                        !.after_abort = hist[t.id].reset,
                        !.pre = rec,
                        !.carried = hist[t.id].denied,
                        !.pre_referrer = ReferrerRecord(db, Referrer(hist[t.id], t))])
        /\ UNCHANGED <<db, started, welcome, hist, last>>

\* the allowed path with line 112 left out: the flag is never persisted
AllowedNextNoPersist(t, pos) ==
    IF pos = "check" /\ t.user_record = None THEN "create"
    ELSE IF pos = "check" /\ NeedAssign(t) THEN "assign"
    ELSE IF pos \in {"check", "assign"} /\ NeedUsername(t) THEN "username"
    ELSE "trigger"

\* where the allowed path (lines 92-112) continues from position pos
AllowedNext(t, pos) ==
    IF pos = "check" /\ t.user_record = None THEN "create"
    ELSE IF pos = "check" /\ NeedAssign(t) THEN "assign"
    ELSE IF pos \in {"check", "assign"} /\ NeedUsername(t) THEN "username"
    ELSE "set_verified"

\* where the denied path (lines 83-90, 131-147) continues from position pos
DeniedNext(t, pos) ==
    IF pos = "check" /\ t.user_record = None THEN "create"
    ELSE IF pos = "check" /\ NeedUsername(t) THEN "username"
    ELSE IF pos \in {"check", "username"} /\ NeedAssign(t) THEN "assign"
    ELSE "denied"

PathNext(t, pos) ==
    IF t.is_allowed = "allowed" THEN AllowedNext(t, pos) ELSE DeniedNext(t, pos)

\* history: the first candidate a denied attempt presents for a user whose
\* record, as the attempt read it, has no referrer
Remember(h, t) ==
    IF /\ t.is_allowed = "denied" /\ t.referred_by # None /\ h.denied = None
       /\ (t.user_record = None \/ Val(t.user_record).referred_by = None)
    THEN [h EXCEPT !.denied = t.referred_by] ELSE h

\* lines 75-80 left out: a failed check is handled like a denial
CheckNextFailClosed(u) ==
    IF u.is_allowed = "allowed" THEN AllowedNext(u, "check")
    ELSE DeniedNext(u, "check")

\* lines 69-82: after an error of the checker the downstream handler runs
\* (lines 75-80), otherwise the allowed or the denied path follows
CheckNext(u) ==
    IF u.is_allowed = "error" THEN "handler" ELSE PathNext(u, "check")

\* lines 69-82: the checker answers allowed, denied, or fails (fail open)
GateCheck(t) ==
    /\ t.kind = "gate" /\ t.pc = "check"
    /\ \E r \in {"allowed", "denied", "error"} :
         LET u == [t EXCEPT !.is_allowed = r]
         IN  /\ tasks' = Become(t, [u EXCEPT !.pc = CheckNext(u)])
             /\ hist' = [hist EXCEPT ![t.id] = Remember(@, u)]
    /\ UNCHANGED <<db, started, welcome, last>>

\* lines 131-133 with the candidate held back: create_user(id, 0, None, username)
RememberedReferrerNone(t) == None

\* lines 96 and 132: the referred_by that create_user is given
CreatedReferrer(t) == t.referred_by

\* lines 93-98 and 131-133: db.create_user for an unknown user
GateCreate(t) ==
    /\ t.kind = "gate" /\ t.pc = "create"
    /\ db' = create_user(db, t.id, CreatedReferrer(t), t.username)
    /\ tasks' = Become(t, [t EXCEPT !.pc = IF t.is_allowed = "allowed"
                                           THEN "set_verified" ELSE "denied"])
    /\ UNCHANGED <<started, welcome, hist, last>>

\* lines 105-107 and 145-147: db.assign_referrer
GateAssign(t) ==
    /\ t.kind = "gate" /\ t.pc = "assign"
    /\ db' = assign_referrer(db, t.id, Val(t.referred_by))
    /\ tasks' = Become(t,
          [t EXCEPT !.user_record =
                        Some([Val(t.user_record) EXCEPT !.referred_by = t.referred_by]),
                    !.pc = PathNext(t, "assign")])
    /\ UNCHANGED <<started, welcome, hist, last>>

\* lines 109-111 and 136-138: db.update_username
GateUsername(t) ==
    /\ t.kind = "gate" /\ t.pc = "username"
    /\ db' = update_username(db, t.id, Val(t.username))
    /\ tasks' = Become(t,
          [t EXCEPT !.user_record =
                        Some([Val(t.user_record) EXCEPT !.username = t.username]),
                    !.pc = PathNext(t, "username")])
    /\ UNCHANGED <<started, welcome, hist, last>>

\* does set_flyer_verified(id, v) change the stored flag from ~v to v?
Flips(d, id, v) == d[id] # None /\ Val(d[id]).flyer_verified # v

\* line 112: db.set_flyer_verified(user.id, True)
GateSetVerified(t) ==
    /\ t.kind = "gate" /\ t.pc = "set_verified"
    /\ db' = set_flyer_verified(db, t.id, TRUE)
    /\ hist' = [hist EXCEPT ![t.id].reset = FALSE]
    /\ tasks' = Become(t,
          [t EXCEPT !.flipped = Flips(db, t.id, TRUE),
                    !.pc = IF ~t.was_verified THEN "trigger" ELSE "handler"])
    /\ UNCHANGED <<started, welcome, last>>

\* lines 114-115, 149-184: _trigger_start, which may run the start flow
GateTrigger(t) ==
    LET n == IF t.runs THEN 1 ELSE 0
    IN  /\ t.kind = "gate" /\ t.pc = "trigger"
        /\ welcome' = [welcome EXCEPT ![t.id] = @ + n]
        /\ tasks' = Become(t, [t EXCEPT !.fired = @ + n, !.pc = "handler"])
        /\ UNCHANGED <<db, started, hist, last>>

\* lines 65, 77, 80, 117: the downstream handler runs
GateHandler(t) ==
    /\ t.kind = "gate" /\ t.pc = "handler"
    /\ tasks' = Become(t, [t EXCEPT !.result = "admitted", !.pc = "done"])
    /\ UNCHANGED <<db, started, welcome, hist, last>>

\* lines 89-90: the acknowledgment of a denied interaction, nothing downstream
GateDenied(t) ==
    /\ t.kind = "gate" /\ t.pc = "denied"
    /\ tasks' = Become(t, [t EXCEPT !.result = "dropped", !.pc = "done"])
    /\ UNCHANGED <<db, started, welcome, hist, last>>

-----------------------------------------------------------------------------
(* JSON values of a webhook body, tagged by their Python type *)

JNull == [t |-> "null", v |-> 0]
JInt(n) == [t |-> "int", v |-> n]
JStr(cs) == [t |-> "str", v |-> cs]
JObj(f) == [t |-> "obj", v |-> f]
JList == [t |-> "list", v |-> 0]

\* dict.get(key)
Get(f, key) == IF key \in DOMAIN f THEN f[key] ELSE JNull

\* value == "literal"
JEq(value, cs) == value.t = "str" /\ value.v = cs

\* the inner loop of _extract_first (lines 21-25) along one path
RECURSIVE Walk(_, _)
Walk(current, path) ==
    IF path = <<>> THEN [broke |-> FALSE, current |-> current]
    ELSE IF current.t # "obj" THEN [broke |-> TRUE, current |-> current]
    ELSE Walk(Get(current.v, Head(path)), Tail(path))

\* history: the value at a path, when every key of the path is present
RECURSIVE Lookup(_, _)
Lookup(current, path) ==
    IF path = <<>> THEN Some(current)
    ELSE IF current.t # "obj" \/ Head(path) \notin DOMAIN current.v THEN None
    ELSE Lookup(current.v[Head(path)], Tail(path))

\* _extract_first (lines 19-28): a path counts as matched when the walk along
\* it did not break, whether or not its last key was found
RECURSIVE extract_first(_, _)
extract_first(payload, paths) ==
    IF paths = <<>> THEN JNull
    ELSE LET w == Walk(payload, Head(paths))
         IN  IF ~w.broke THEN w.current
             ELSE extract_first(payload, Tail(paths))

\* int(value) of a stripped string: an optional sign, then digits
ParseInt(cs) ==
    IF cs # <<>> /\ Head(cs) \in {"-", "+"} /\ IsDigit(Tail(cs))
    THEN Some(IF Head(cs) = "-" THEN 0 - ToInt(Tail(cs)) ELSE ToInt(Tail(cs)))
    ELSE IF IsDigit(cs) THEN Some(ToInt(cs))
    ELSE None

\* _coerce_int (lines 31-42)
coerce_int(value) ==
    IF value.t = "null" THEN None
    ELSE IF value.t = "int" THEN Some(value.v)
    ELSE IF value.t = "str" THEN ParseInt(Strip(value.v))
    ELSE None

\* lines 48-56: the candidate paths of the user id, in order
TelegramIdPaths ==
    << <<"telegram_id">>, <<"chat_id">>, <<"user_id">>,
       <<"data", "telegram_id">>, <<"data", "chat_id">>, <<"data", "user_id">>,
       <<"data", "user", "id">> >>

\* lines 64-67: the candidate paths of the chat id
ChatIdPaths == << <<"chat_id">>, <<"data", "chat_id">> >>

\* lines 76-80: the candidate paths of the username
UsernamePaths ==
    << <<"username">>, <<"data", "username">>, <<"data", "user", "username">> >>

\* _extract_telegram_id (lines 45-58)
extract_telegram_id(payload) == coerce_int(extract_first(payload, TelegramIdPaths))

\* lines 69-70: the chat id, or the fallback
chat_id_or(chat_id, fallback) == IF chat_id # None THEN Val(chat_id) ELSE fallback

\* _extract_chat_id (lines 61-70)
extract_chat_id(payload, fallback) ==
    chat_id_or(coerce_int(extract_first(payload, ChatIdPaths)), fallback)

\* lines 82-87: a string is stripped, and an empty or other value is None
username_of(raw) ==
    IF raw.t = "null" THEN None
    ELSE IF raw.t = "str" THEN (IF Strip(raw.v) = <<>> THEN None
                                ELSE Some(Strip(raw.v)))
    ELSE None

\* _extract_username (lines 73-87)
extract_username(payload) == username_of(extract_first(payload, UsernamePaths))

S_test == <<"t", "e", "s", "t">>
S_sub_completed == <<"s", "u", "b", "_", "c", "o", "m", "p", "l", "e", "t", "e", "d">>
S_new_status == <<"n", "e", "w", "_", "s", "t", "a", "t", "u", "s">>
S_abort == <<"a", "b", "o", "r", "t">>
S_other == <<"x">>

\* history: the user id of a body that is a new_status/abort event naming its
\* user only inside the data envelope, as a numeric string
EnvelopeAbort(body) ==
    IF body = None \/ Val(body).t # "obj" THEN None
    ELSE LET payload == Val(body)
             id == Lookup(payload, <<"data", "telegram_id">>)
         IN  IF /\ JEq(Get(payload.v, "type"), S_new_status)
                /\ Lookup(payload, <<"data", "status">>) = Some(JStr(S_abort))
                /\ \A k \in {"telegram_id", "chat_id", "user_id"} : k \notin DOMAIN payload.v
                /\ id # None /\ Val(id).t = "str"
             THEN coerce_int(Val(id))
             ELSE None

\* the request as flyer_webhook sees it before its first repository call
\* (lines 106-124, 149-151): either answered at once, or an event to apply
Normalize(body) ==
    LET answered(r) == [result |-> r, etype |-> "none", id |-> 0,
                        username |-> None, chat_id |-> 0,
                        envelope_abort |-> EnvelopeAbort(body)]
    IN  IF body = None THEN answered("ok")                     \* invalid JSON
        ELSE LET payload == Val(body)
             IN  IF payload.t # "obj" THEN answered("error")   \* payload.get fails
                 ELSE LET event_type == Get(payload.v, "type")
                          telegram_id == extract_telegram_id(payload)
                          status == extract_first(payload, << <<"data", "status">> >>)
                      IN  IF JEq(event_type, S_test) THEN answered("ok")
                          ELSE IF telegram_id = None THEN answered("ok")
                          ELSE IF JEq(event_type, S_sub_completed)
                                  \/ (JEq(event_type, S_new_status) /\ JEq(status, S_abort))
                          THEN [result |-> "none",
                                etype |-> IF JEq(event_type, S_sub_completed)
                                          THEN "sub_completed" ELSE "abort",
                                id |-> Val(telegram_id),
                                username |-> extract_username(payload),
                                chat_id |-> extract_chat_id(payload, Val(telegram_id)),
                                envelope_abort |-> EnvelopeAbort(body)]
                          ELSE answered("ok")

\* a JSON object with the fields of vals that are not Absent
Absent == [t |-> "absent", v |-> 0]
ObjOf(vals) == JObj([k \in {k \in DOMAIN vals : vals[k].t # "absent"} |-> vals[k]])

IdValues == {Absent, JInt(1), JInt(2), JStr(<<"1">>), JStr(<<" ", "2", " ">>), JStr(S_other)}
NameValues == {Absent, JStr(<<" ">> \o S_bob), JStr(<<" ">>), JInt(1)}
TypeValues ==
    {Absent, JStr(S_test), JStr(S_sub_completed), JStr(S_new_status), JStr(S_other)}

DataValues ==
    {Absent, JStr(S_other)}
    \cup {ObjOf([status |-> st, telegram_id |-> id, username |-> nm, user |-> us]) :
            st \in {Absent, JStr(S_abort), JStr(S_other)},
            id \in {Absent, JStr(<<"2">>), JInt(1)},
            nm \in {Absent, JStr(S_bob)},
            us \in {Absent, ObjOf([id |-> JInt(2), username |-> JStr(S_ann)])}}

Bodies ==
    {None, Some(JList), Some(JInt(1))}
    \cup {Some(ObjOf([type |-> ty, telegram_id |-> id, username |-> nm, data |-> da])) :
            ty \in TypeValues, id \in IdValues, nm \in NameValues, da \in DataValues}
    \cup {Some(ObjOf([type |-> JStr(S_new_status), telegram_id |-> id,
                      chat_id |-> JInt(1), data |-> da])) :
            id \in IdValues, da \in DataValues}

\* the distinct requests the bodies amount to
HookInputs == {Normalize(b) : b \in Bodies}

\* the bodies that are JSON objects
ObjectPayloads == {Val(b) : b \in {c \in Bodies : c # None /\ Val(c).t = "obj"}}

\* webhook.py lines 116-122: the fields flyer_webhook extracts from a payload
\* (username and chat id only once the user id is known)
ExtractFields ==
    /\ seen_payload # None
    /\ extracted = None
    /\ LET p == Val(seen_payload)
           telegram_id == extract_telegram_id(p)
       IN  /\ UNCHANGED seen_payload
           /\ extracted' =
                 Some([telegram_id |-> telegram_id,
                       username |-> IF telegram_id = None THEN None
                                    ELSE extract_username(p),
                       chat_id |-> IF telegram_id = None THEN None
                                   ELSE Some(extract_chat_id(p, Val(telegram_id)))])
    /\ UNCHANGED <<gateVars, throttleVars, auditVars>>

NextExtract == ExtractFields

-----------------------------------------------------------------------------
(* The webhook handler flyer_webhook *)

\* history: is this the delivery that has just completed, once more?
SameDelivery(in) ==
    /\ last # None
    /\ in.etype = "sub_completed"
    /\ Val(last).id = in.id
    /\ Val(last).username = in.username
    /\ Val(last).chat_id = in.chat_id

\* lines 149-152 without the tests of type and status: every event resets
HookFirstAlwaysResets(etype) == "set_unverified"

\* lines 124-125, 149-152: the first repository call of an event
HookFirst(etype) ==
    IF etype = "sub_completed" THEN "ensure_get" ELSE "set_unverified"

\* lines 105-124, 149-151: a request arrives and is parsed
HookStart(limit) ==
    /\ BagCardinality(tasks) < MaxRunning
    /\ started < limit
    /\ \E in \in HookInputs :
         LET who == IF in.result = "none" THEN Some(in.id) ELSE in.envelope_abort
         IN  /\ tasks' = Spawn(
                  [NewTask EXCEPT
                     !.kind = "hook", !.id = in.id, !.etype = in.etype,
                     !.username = in.username, !.chat_id = in.chat_id,
                     !.result = in.result,
                     !.envelope_abort = in.envelope_abort,
                     !.pre = IF who # None THEN db[Val(who)] ELSE None,
                     !.prev = IF SameDelivery(in) THEN last ELSE None,
                     !.pc = IF in.result # "none" THEN "done"
                            ELSE HookFirst(in.etype)])
             /\ hist' = IF in.etype = "abort"
                        THEN [hist EXCEPT ![in.id].aborted = TRUE] ELSE hist
    /\ started' = started + 1
    /\ last' = None
    /\ UNCHANGED <<db, welcome>>

\* line 152: db.set_flyer_verified(telegram_id, False)
HookSetUnverified(t) ==
    /\ t.kind = "hook" /\ t.pc = "set_unverified"
    /\ db' = set_flyer_verified(db, t.id, FALSE)
    /\ hist' = [hist EXCEPT ![t.id].reset = Flips(db, t.id, FALSE) \/ @]
    /\ tasks' = Become(t, [t EXCEPT !.pc = "ensure_get"])
    /\ UNCHANGED <<started, welcome, last>>

\* line 126 without the test: every delivery counts as a first one
already_verified_never(user) == FALSE

\* line 126: already_verified = bool(user and user.flyer_verified)
already_verified_of(user) == user # None /\ Val(user).flyer_verified

\* _ensure_user_record has returned user: lines 126-128, or 154-183
AfterEnsure(t, user) ==
    [t EXCEPT !.user_record = user,
              !.already_verified = t.etype = "sub_completed" /\ already_verified_of(user),
              !.pc = IF t.etype = "sub_completed" THEN "set_verified" ELSE "respond"]

\* line 91: _ensure_user_record reads the record
HookEnsureGet(t) ==
    LET user == get_user(db, t.id)
    IN  /\ t.kind = "hook" /\ t.pc = "ensure_get"
        /\ tasks' = Become(t,
              IF user = None THEN [t EXCEPT !.pc = "ensure_create"]
              ELSE IF t.username # None /\ Val(user).username # t.username
              THEN [t EXCEPT !.user_record = user, !.pc = "ensure_username"]
              ELSE AfterEnsure(t, user))
        /\ UNCHANGED <<db, started, welcome, hist, last>>

\* line 93: db.create_user(telegram_id, 0, None, username)
HookEnsureCreate(t) ==
    /\ t.kind = "hook" /\ t.pc = "ensure_create"
    /\ db' = create_user(db, t.id, None, t.username)
    /\ tasks' = Become(t, [t EXCEPT !.pc = "ensure_reget"])
    /\ UNCHANGED <<started, welcome, hist, last>>

\* line 94: the record is read back
HookEnsureReget(t) ==
    /\ t.kind = "hook" /\ t.pc = "ensure_reget"
    /\ tasks' = Become(t, AfterEnsure(t, get_user(db, t.id)))
    /\ UNCHANGED <<db, started, welcome, hist, last>>

\* lines 96-97: db.update_username
HookEnsureUsername(t) ==
    /\ t.kind = "hook" /\ t.pc = "ensure_username"
    /\ db' = update_username(db, t.id, Val(t.username))
    /\ tasks' = Become(t,
          AfterEnsure(t, Some([Val(t.user_record) EXCEPT !.username = t.username])))
    /\ UNCHANGED <<started, welcome, hist, last>>

\* line 128: db.set_flyer_verified(telegram_id, True)
HookSetVerified(t) ==
    /\ t.kind = "hook" /\ t.pc = "set_verified"
    /\ db' = set_flyer_verified(db, t.id, TRUE)
    /\ hist' = [hist EXCEPT ![t.id].reset = FALSE]
    /\ tasks' = Become(t, [t EXCEPT !.flipped = Flips(db, t.id, TRUE), !.pc = "respond"])
    /\ UNCHANGED <<started, welcome, last>>

\* lines 130-147 and 156-185: the reaction is handed to a new task
\* (the start flow counts as triggered here) and the request is answered
HookRespond(t) ==
    LET n == IF t.etype = "sub_completed" /\ ~t.already_verified THEN 1 ELSE 0
    IN  /\ t.kind = "hook" /\ t.pc = "respond"
        /\ welcome' = [welcome EXCEPT ![t.id] = @ + n]
        /\ tasks' = Become(t,
              [t EXCEPT !.fired = @ + n, !.result = "ok",
                        !.pc = IF t.etype = "abort" THEN "reaction" ELSE "done"])
        /\ UNCHANGED <<db, started, hist, last>>

\* lines 156-181: _handle_abort: the unsubscription reaction, then the
\* prompt to chat_id, whose send succeeds or fails
HookAbortReaction(t) ==
    /\ t.kind = "hook" /\ t.pc = "reaction"
    /\ \E ok \in BOOLEAN :
         tasks' = Become(t, [t EXCEPT !.unsub = t.user_record # None,
                                      !.prompt = Some(t.chat_id),
                                      !.sent = ok,
                                      !.pc = "done"])
    /\ UNCHANGED <<db, started, welcome, hist, last>>

\* the handler has returned
Return(t) ==
    /\ t.pc = "done"
    /\ last' = IF t.kind = "hook" /\ t.etype = "sub_completed"
               THEN Some([id |-> t.id, username |-> t.username, chat_id |-> t.chat_id,
                          fired |-> t.fired,
                          pre_verified |-> already_verified_of(t.pre),
                          after |-> db[t.id]])
               ELSE None
    /\ tasks' = tasks (-) SetToBag({t})
    /\ UNCHANGED <<db, started, welcome, hist>>

-----------------------------------------------------------------------------
(* ThrottlingMiddleware.  Time is counted in ticks of a quarter second.     *)

\* rate_limit=0.5 (main.py:41), in ticks
RateLimit == 2

\* The loop clock is time.monotonic(), which counts from system boot: by the
\* time the bot handles its first update it is past the rate limit.
StartClock == RateLimit

\* line 34 with <= for <
ThrottleAdmitsStrict(now, last_time) == ~(now - last_time <= RateLimit)

\* line 34: the interaction passes unless now - last_time < self.rate_limit
ThrottleAdmits(now, last_time) == ~(now - last_time < RateLimit)

\* lines 34-36 with the write before the test: every arrival is stamped
StampAlways(admitted, now, last_time) == now

\* lines 34-36: the timestamp after the call; a dropped call returns before
\* the write
Stamp(admitted, now, last_time) == IF admitted THEN now ELSE last_time

\* time passes
Tick ==
    /\ clock < MaxClock
    /\ clock' = clock + 1
    /\ UNCHANGED <<user_timestamps, calls, log>>

\* lines 21-31: an interaction of user id reaches the middleware and asks
\* for the lock (an event without a user is passed on unthrottled, line 29)
ThrottleArrive(id) ==
    /\ BagCardinality(calls) < MaxRunning
    /\ Len(log[id]) + CopiesIn(id, calls) < MaxCalls
    /\ calls' = calls (+) SetToBag({id})
    /\ UNCHANGED <<user_timestamps, clock, log>>

\* lines 31-37: under the lock, which is free whenever a task runs because
\* no await lies between its acquire and its release
ThrottleEnter(id) ==
    LET now == clock
        last_time == user_timestamps[id]
        admitted == ThrottleAdmits(now, last_time)
    IN  /\ BagIn(id, calls)
        /\ calls' = calls (-) SetToBag({id})
        /\ user_timestamps' =
               [user_timestamps EXCEPT ![id] = Stamp(admitted, now, last_time)]
        /\ log' = [log EXCEPT ![id] = Append(@, [now |-> now, admitted |-> admitted])]
        /\ UNCHANGED clock

NextThrottle ==
    /\ \/ Tick
       \/ \E id \in Users : ThrottleArrive(id) \/ ThrottleEnter(id)
    /\ UNCHANGED <<gateVars, auditVars, extractVars>>

-----------------------------------------------------------------------------
(* run_referral_audit (tasks.py) *)

AuditHistInit ==
    [listed |-> FALSE,      \* the enumeration of this cycle succeeded
     snapshot |-> {},       \* the users it returned
     checked |-> {},        \* the users re-checked in this cycle
     failures |-> 0,        \* re-checks of this cycle that raised
     cancelled |-> FALSE,   \* main has cancelled the task
     raised |-> "none"]     \* what the coroutine raised to its caller

\* db.list_all_users(): the records of the table, here in the order of their ids
RECURSIVE list_all_users(_, _)
list_all_users(d, ids) ==
    IF ids = {} THEN <<>>
    ELSE LET id == CHOOSE i \in ids : \A j \in ids : i <= j
             row == IF d[id] = None THEN <<>>
                    ELSE << [telegram_id |-> id,
                             referred_by |-> Val(d[id]).referred_by,
                             is_subscribed |-> Val(d[id]).is_subscribed] >>
         IN  row \o list_all_users(d, ids \ {id})

\* Python's truth value of an Optional[int]: None and 0 are false
Truthy(m) == m # None /\ Val(m) # 0

\* line 28: the users the sweep does not skip
Selected(user) == ~(~Truthy(user.referred_by) \/ ~user.is_subscribed)

\* lines 27-29: the for loop passes over the users it skips without an await
RECURSIVE SkipUnselected(_)
SkipUnselected(users) ==
    IF users = <<>> \/ Selected(Head(users)) THEN users
    ELSE SkipUnselected(Tail(users))

\* where the loop is once the for loop stands at users
AuditAt(users) == IF users = <<>> THEN "sleep" ELSE "check"

\* line 26: db.list_all_users() returns, or raises into line 41
AuditList ==
    /\ audit_pc = "list"
    /\ \E ok \in BOOLEAN :
         LET users == IF ok THEN list_all_users(db, Users) ELSE <<>>
             rest == SkipUnselected(users)
         IN  /\ audit_users' = rest
             /\ audit_pc' = AuditAt(rest)
             /\ audit_hist' = [audit_hist EXCEPT
                                  !.listed = ok,
                                  !.snapshot = {users[i] : i \in 1..Len(users)},
                                  !.checked = {},
                                  !.failures = 0]
    /\ UNCHANGED <<gateVars, throttleVars, extractVars>>

\* lines 34-37 with the handler left out: a failing re-check ends the sweep
\* in the handler of line 41
AuditAfterCheckAborts(ok) == IF ok THEN "yield" ELSE "sleep"

\* lines 30-38: whether the re-check returns or raises, asyncio.sleep(0) follows
AuditAfterCheck(ok) == "yield"

\* lines 30-37: _verify_and_activate_subscription returns or raises
AuditCheck ==
    /\ audit_pc = "check"
    /\ \E ok \in BOOLEAN :
         /\ audit_pc' = AuditAfterCheck(ok)
         /\ audit_hist' = [audit_hist EXCEPT
                              !.checked = @ \cup {Head(audit_users).telegram_id},
                              !.failures = @ + (IF ok THEN 0 ELSE 1)]
    /\ UNCHANGED <<audit_users, gateVars, throttleVars, extractVars>>

\* line 38, then lines 27-29: the loop yields and goes on to the next user
AuditYield ==
    /\ audit_pc = "yield"
    /\ audit_users' = SkipUnselected(Tail(audit_users))
    /\ audit_pc' = AuditAt(audit_users')
    /\ UNCHANGED <<audit_hist, gateVars, throttleVars, extractVars>>

\* lines 44-45, 24: the interval has passed and the next cycle begins
AuditWake ==
    /\ audit_pc = "sleep"
    /\ audit_pc' = "list"
    /\ audit_users' = <<>>
    /\ UNCHANGED <<audit_hist, gateVars, throttleVars, extractVars>>

\* main.py lines 64-66: audit_task.cancel(); the CancelledError is raised at
\* the await the loop is at and re-raised by lines 32-33, 39-40, 46-50
AuditCancel ==
    /\ audit_pc \in {"list", "check", "yield", "sleep"}
    /\ audit_pc' = "ended"
    /\ audit_hist' = [audit_hist EXCEPT !.cancelled = TRUE,
                                        !.raised = "CancelledError"]
    /\ UNCHANGED <<audit_users, gateVars, throttleVars, extractVars>>

AuditLoop == AuditList \/ AuditCheck \/ AuditYield \/ AuditWake

NextAudit == AuditLoop \/ AuditCancel

\* the records the sweep may find: referred_by is any number a start command
\* carried (middlewares.py line 208; 0 included, and 3, which is no user of
\* the model) except the user's own id, is_subscribed is set by the business
\* handlers
AuditRecords(id) ==
    {None} \cup
    { Some([NewRecord(r, None) EXCEPT !.is_subscribed = sub]) :
        r \in {None} \cup {Some(n) : n \in ({0, 3} \cup Users) \ {id}},
        sub \in BOOLEAN }

-----------------------------------------------------------------------------
(* The specifications of the gate and the webhook *)

\* no request has been received and nothing has been sent
InitIdle ==
    /\ tasks = EmptyBag
    /\ started = 0
    /\ welcome = [id \in Users |-> 0]
    /\ hist = [id \in Users |-> HistInit]
    /\ last = None
    /\ user_timestamps = [id \in Users |-> 0]
    /\ clock = StartClock
    /\ calls = EmptyBag
    /\ log = [id \in Users |-> <<>>]
    /\ audit_pc = "list"
    /\ audit_users = <<>>
    /\ audit_hist = AuditHistInit
    /\ extracted = None

InitRest ==
    /\ InitIdle
    /\ seen_payload = None

Init ==
    /\ db = [id \in Users |-> None]
    /\ InitRest

\* a handler that has returned leaves before anything else happens
NoneDone == \A t \in Running : t.pc # "done"

\* the steps of the gate before it calls its handler, and of the webhook
Upstream(t) ==
    \/ GateGetUser(t) \/ GateCheck(t) \/ GateCreate(t) \/ GateAssign(t)
    \/ GateUsername(t) \/ GateSetVerified(t) \/ GateTrigger(t)
    \/ GateDenied(t)
    \/ HookSetUnverified(t) \/ HookEnsureGet(t) \/ HookEnsureCreate(t)
    \/ HookEnsureReget(t) \/ HookEnsureUsername(t) \/ HookSetVerified(t)
    \/ HookRespond(t) \/ HookAbortReaction(t)

Step(t) == Upstream(t) \/ GateHandler(t)

\* handlers interleave at their awaits
Next ==
    /\ \/ NoneDone /\ (GateStart(MaxRaces) \/ HookStart(MaxRaces))
       \/ NoneDone /\ \E t \in Running : Step(t)
       \/ \E t \in Running : Return(t)
    /\ UNCHANGED <<throttleVars, auditVars, extractVars>>

Spec == Init /\ [][Next]_vars

\* one handler at a time: a handler starts only when no other is running
NextSeq ==
    /\ \/ Quiet /\ (GateStart(MaxEvents) \/ HookStart(MaxEvents))
       \/ \E t \in Running : Step(t) \/ Return(t)
    /\ UNCHANGED <<throttleVars, auditVars, extractVars>>

SpecSeq == Init /\ [][NextSeq]_vars

SpecThrottle == Init /\ [][NextThrottle]_vars

-----------------------------------------------------------------------------
(* Repository failures.  A repository call may raise; neither the gate     *)
(* (middlewares.py lines 61-117) nor the webhook handler (webhook.py lines *)
(* 124-185) catches it, so it leaves the handler as an exception.          *)

GateRepositoryCalls == {"get_user", "create", "assign", "username", "set_verified"}

HookRepositoryCalls ==
    {"set_unverified", "ensure_get", "ensure_create", "ensure_reget",
     "ensure_username", "set_verified"}

\* lines 61, 93, 105, 109, 112, 132, 136, 145: the awaited db call raises and
\* the exception leaves __call__
GateRepositoryFails(t) ==
    /\ t.kind = "gate" /\ t.pc \in GateRepositoryCalls
    /\ tasks' = Become(t, [t EXCEPT !.failed = t.pc, !.result = "raised", !.pc = "done"])
    /\ UNCHANGED <<db, started, welcome, hist, last>>

\* webhook.py lines 91-96, 128, 152: the awaited db call raises and the
\* request is answered with an error response
HookRepositoryFails(t) ==
    /\ t.kind = "hook" /\ t.pc \in HookRepositoryCalls
    /\ tasks' = Become(t, [t EXCEPT !.failed = t.pc, !.result = "error", !.pc = "done"])
    /\ UNCHANGED <<db, started, welcome, hist, last>>

\* one handler at a time, with repository calls that may fail
NextFault ==
    /\ \/ Quiet /\ (GateStart(MaxRuns) \/ HookStart(MaxRuns))
       \/ \E t \in Running :
             Step(t) \/ Return(t) \/ GateRepositoryFails(t) \/ HookRepositoryFails(t)
    /\ UNCHANGED <<throttleVars, auditVars, extractVars>>

SpecFault == Init /\ [][NextFault]_vars

-----------------------------------------------------------------------------
(* The middleware chain of messages and callback queries (main.py lines    *)
(* 39-41).  On dp.message the gate is registered before the throttle, so   *)
(* the handler the gate calls is the throttle; dp.callback_query has the    *)
(* gate only.                                                               *)

\* main.py lines 39-41: is the throttle in the chain of this kind of event?
Throttled(event_kind) == event_kind \in {"start_message", "message"}

\* middlewares.py lines 65, 77, 80, 117 into lines 21-37: the gate calls its
\* handler; for a message that is the throttle, which decides without an await
PipeHandler(t) ==
    LET now == clock
        last_time == user_timestamps[t.id]
        admitted == ThrottleAdmits(now, last_time)
    IN  /\ t.kind = "gate" /\ t.pc = "handler"
        /\ IF Throttled(t.event_kind)
           THEN /\ user_timestamps' =
                      [user_timestamps EXCEPT ![t.id] = Stamp(admitted, now, last_time)]
                /\ log' = [log EXCEPT ![t.id] =
                               Append(@, [now |-> now, admitted |-> admitted])]
                /\ tasks' = Become(t, [t EXCEPT !.pc = "done",
                                                !.result = IF admitted THEN "admitted"
                                                           ELSE "throttled"])
           ELSE /\ tasks' = Become(t, [t EXCEPT !.pc = "done", !.result = "admitted"])
                /\ UNCHANGED <<user_timestamps, log>>
        /\ UNCHANGED <<db, started, welcome, hist, last, clock, calls>>

\* interactions and webhooks, one at a time, the interactions through the
\* chain as main registers it
NextPipe ==
    \/ /\ \/ Quiet /\ (GateStart(MaxRuns) \/ HookStart(MaxRuns))
          \/ \E t \in Running : Upstream(t) \/ Return(t)
       /\ UNCHANGED <<throttleVars, auditVars, extractVars>>
    \/ /\ \E t \in Running : PipeHandler(t)
       /\ UNCHANGED <<auditVars, extractVars>>
    \/ /\ Tick
       /\ UNCHANGED <<gateVars, auditVars, extractVars>>

SpecPipe == Init /\ [][NextPipe]_vars

\* the extraction of the fields of a webhook payload alone
\* a webhook request whose body is a JSON object has been received
InitExtract ==
    /\ db = [id \in Users |-> None]
    /\ InitIdle
    /\ seen_payload \in {Some(p) : p \in ObjectPayloads}

SpecExtract == InitExtract /\ [][NextExtract]_vars

\* the audit loop over a table as the other components have left it
InitAudit ==
    /\ db \in {d \in [Users -> UNION {AuditRecords(id) : id \in Users}] :
                 \A id \in Users : d[id] \in AuditRecords(id)}
    /\ InitRest

SpecAudit == InitAudit /\ [][NextAudit]_vars

\* the event loop runs a task whose await has completed
SpecAuditFair == InitAudit /\ [][NextAudit]_vars /\ WF_vars(AuditLoop)

-----------------------------------------------------------------------------
(* Properties *)

HasReferrer(d, id) == d[id] # None /\ Val(d[id]).referred_by # None

\* C1: once a record's referredBy is non-null, no step of any gate or webhook
\* handler, in any interleaving, changes it.
ReferredByWriteOnce ==
    [][\A id \in Users :
         HasReferrer(db, id) =>
            HasReferrer(db', id) /\ Val(db'[id]).referred_by = Val(db[id]).referred_by]_vars

\* C1 witness: a gate evaluation that saw no record has run db.create_user with
\* its own candidate after another evaluation had stored a different referrer.
ReferredByWriteOnceWitness ==
    \E t \in Running :
        /\ t.kind = "gate" /\ t.pc = "done" /\ t.referred_by # None
        /\ t.pre = None
        /\ HasReferrer(db, t.id) /\ Val(db[t.id]).referred_by # t.referred_by

\* C2: with one handler at a time and no abort event for the user, the start
\* flow is triggered at most once, and only by a handler whose
\* set_flyer_verified changed the flag from false to true.
WelcomeOncePerVerification ==
    \A id \in Users :
        ~hist[id].aborted =>
            /\ welcome[id] <= 1
            /\ \A t \in Running : t.id = id /\ t.fired > 0 => t.flipped

\* C2 witness: after the welcome trigger, a later handler for the same user
\* has completed without triggering again.
WelcomeOncePerVerificationWitness ==
    \E t \in Running :
        /\ t.id \in Users /\ t.pc = "done" /\ t.fired = 0
        /\ ~hist[t.id].aborted /\ welcome[t.id] = 1
        /\ t.pre # None /\ Val(t.pre).flyer_verified

\* C3: also when handlers interleave at their awaits, a user without an abort
\* event gets at most one welcome trigger.
RaceWelcomeOnce == \A id \in Users : ~hist[id].aborted => welcome[id] <= 1

\* C4: no record ever has referredBy equal to its own id.
NoSelfReferral ==
    \A id \in Users : db[id] # None => Val(db[id]).referred_by # Some(id)

\* C4 witness: an allowed gate evaluation of a new user whose start command
\* carried the user's own id has created the record.
NoSelfReferralWitness ==
    \E t \in Running :
        /\ t.kind = "gate" /\ t.pc = "done" /\ t.self_ref
        /\ t.is_allowed = "allowed" /\ t.pre = None /\ db[t.id] # None

Verified(d, id) == d[id] # None /\ Val(d[id]).flyer_verified

\* an allowed gate evaluation that has completed
AllowedDone(t) == t.kind = "gate" /\ t.pc = "done" /\ t.is_allowed = "allowed"

\* a denied gate evaluation that has completed
DeniedDone(t) == t.kind = "gate" /\ t.pc = "done" /\ t.is_allowed = "denied"

\* the interactions for which _trigger_start is meant to run the start flow
\* (spec 4.2: not a start command, and a known chat target)
Triggering(t) == t.event_kind \in {"message", "callback"}

\* C5, as claimed: after an abort reset a verified user, the next allowed gate
\* evaluation sets flyerVerified and triggers the start flow exactly once,
\* whatever the kind of interaction.
ReverifyTriggersOnceAnyKind ==
    \A t \in Running :
        AllowedDone(t) /\ t.after_abort => Verified(db, t.id) /\ t.fired = 1

\* C5, amended: ... exactly once for a message that does not begin with
\* /start and for a callback attached to a message, and not at all for a
\* message beginning with /start or a callback without a message.
ReverifyTriggersOnce ==
    \A t \in Running :
        AllowedDone(t) /\ t.after_abort =>
            /\ Verified(db, t.id)
            /\ t.fired = IF Triggering(t) THEN 1 ELSE 0

\* C5 witness: such an evaluation has completed with its one trigger.
ReverifyTriggersOnceWitness ==
    \E t \in Running :
        AllowedDone(t) /\ t.after_abort /\ t.event_kind = "callback" /\ t.fired = 1

\* C6, as claimed: the second of two identical sub_completed deliveries in a
\* row leaves the record as the first left it, verified, and the two
\* together trigger the start flow exactly once.
DuplicateDeliveryOneWelcome ==
    \A t \in Running :
        t.kind = "hook" /\ t.pc = "done" /\ t.prev # None =>
            /\ Verified(db, t.id)
            /\ db[t.id] = Val(t.prev).after
            /\ Val(t.prev).fired + t.fired = 1

\* C6, amended: ... the second delivery triggers nothing, and the two
\* together trigger the start flow once if the user was not verified before
\* the first delivery and not at all if it was.
DuplicateDeliveryIdempotent ==
    \A t \in Running :
        t.kind = "hook" /\ t.pc = "done" /\ t.prev # None =>
            /\ Verified(db, t.id)
            /\ db[t.id] = Val(t.prev).after
            /\ t.fired = 0
            /\ Val(t.prev).fired = IF Val(t.prev).pre_verified THEN 0 ELSE 1

\* C6 witness: the second delivery for a user the first one verified.
DuplicateDeliveryIdempotentWitness ==
    \E t \in Running :
        /\ t.kind = "hook" /\ t.pc = "done" /\ t.prev # None
        /\ Val(t.prev).fired = 1 /\ t.username # None

ReferrerUntouched(t) == ReferrerRecord(db, t.carried) = t.pre_referrer

\* C8, as claimed: a candidate presented on a denied attempt is the referredBy
\* after a later allowed evaluation, which verifies the user, triggers the
\* start flow once and leaves the referrer's record alone.
CarriedReferrerOneWelcome ==
    \A t \in Running :
        AllowedDone(t) /\ t.carried # None =>
            /\ Verified(db, t.id)
            /\ Val(db[t.id]).referred_by = t.carried
            /\ ReferrerUntouched(t)
            /\ t.fired = 1

\* C8, amended: ... and triggers the start flow once if the succeeding
\* interaction is a message not beginning with /start or a callback attached
\* to a message, and not at all otherwise.
CarriedReferrer ==
    \A t \in Running :
        AllowedDone(t) /\ t.carried # None =>
            /\ Verified(db, t.id)
            /\ Val(db[t.id]).referred_by = t.carried
            /\ ReferrerUntouched(t)
            /\ t.fired = IF Triggering(t) THEN 1 ELSE 0

\* C8 witness: the succeeding interaction carried no code, and the referrer
\* has a record.
CarriedReferrerWitness ==
    \E t \in Running :
        /\ AllowedDone(t) /\ t.carried # None /\ t.referred_by = None
        /\ t.fired = 1 /\ t.pre_referrer # None

\* C9: an abort event naming a verified user only inside the data envelope
\* resets flyerVerified, attempts the unsubscription reaction, prompts the
\* chat of that id and is answered with success.
EnvelopeAbortResets ==
    \A t \in Running :
        /\ t.kind = "hook" /\ t.pc = "done"
        /\ t.envelope_abort # None /\ IsVerified(t.pre)
        => /\ ~Verified(db, Val(t.envelope_abort))
           /\ t.unsub /\ t.prompt = t.envelope_abort
           /\ t.result = "ok"

\* C10: a user's first interaction is admitted, and of two successive
\* interactions of one user, the earlier admitted, the later is dropped when
\* it comes less than the interval after the earlier (also when both arrive
\* together) and admitted when it comes at least the interval after it.
ThrottlePairs ==
    \A id \in Users :
        LET l == log[id]
        IN  /\ Len(l) >= 1 => l[1].admitted
            /\ \A i \in 1..(Len(l) - 1) :
                   l[i].admitted =>
                       IF l[i + 1].now - l[i].now < RateLimit
                       THEN ~l[i + 1].admitted
                       ELSE l[i + 1].admitted

\* C10 witness: one user's first two interactions arrived together and only
\* one passed, another user's first two came exactly the interval apart and
\* both passed.
ThrottlePairsWitness ==
    \E a, b \in Users :
        /\ Len(log[a]) >= 2 /\ Len(log[b]) >= 2
        /\ log[a][1].now = log[a][2].now
        /\ log[a][1].admitted /\ ~log[a][2].admitted
        /\ log[b][2].now - log[b][1].now = RateLimit
        /\ log[b][1].admitted /\ log[b][2].admitted

\* the users of this cycle's enumeration that satisfy sel
AuditIds(sel(_)) == {u.telegram_id : u \in {v \in audit_hist.snapshot : sel(v)}}

\* C11, as claimed: the users a sweep re-checks are exactly the listed users
\* with a non-null referredBy and isSubscribed true.
ReferredSubscribed(v) == v.referred_by # None /\ v.is_subscribed
AuditChecksReferred ==
    /\ audit_hist.checked \subseteq AuditIds(ReferredSubscribed)
    /\ audit_pc = "sleep" /\ audit_hist.listed =>
           audit_hist.checked = AuditIds(ReferredSubscribed)

\* C19: the loop ends only by cancellation, which it raises to its caller; a
\* sweep whose enumeration succeeded re-checks every user it selects, whether
\* or not re-checks fail; and after a failed enumeration the next cycle
\* begins (unless the task is cancelled first).
AuditNeverStops ==
    /\ [](audit_pc = "ended" =>
             audit_hist.cancelled /\ audit_hist.raised = "CancelledError")
    /\ [](audit_pc = "sleep" /\ audit_hist.listed =>
             audit_hist.checked = AuditIds(Selected))
    /\ (audit_pc = "sleep" /\ ~audit_hist.listed) ~> (audit_pc \in {"list", "ended"})

\* C19 witness: a sweep has re-checked both users although a re-check failed.
AuditNeverStopsWitness ==
    /\ audit_pc = "sleep" /\ audit_hist.listed
    /\ audit_hist.failures >= 1
    /\ audit_hist.checked = Users

\* the position in l of the last admitted interaction before position j, or 0
LastAdmitted(l, j) ==
    LET before == {i \in 1..(j - 1) : l[i].admitted}
    IN  IF before = {} THEN 0 ELSE CHOOSE i \in before : \A k \in before : k <= i

\* C20: an interaction is admitted if and only if at least the interval has
\* passed since the same user's most recent admitted interaction, and a
\* user's timestamp is the time of that user's own last admitted interaction
\* and nothing else (dropped interactions and other users leave it alone).
ThrottleAnchored ==
    \A id \in Users :
        LET l == log[id]
            final == LastAdmitted(l, Len(l) + 1)
        IN  /\ \A j \in 1..Len(l) :
                   LET i == LastAdmitted(l, j)
                   IN  i # 0 => (l[j].admitted <=> l[j].now - l[i].now >= RateLimit)
            /\ user_timestamps[id] = IF final = 0 THEN 0 ELSE l[final].now

\* C20 witness: a user was admitted, dropped one tick later, and admitted
\* again one tick after that, a full interval after the first admission.
ThrottleAnchoredWitness ==
    \E id \in Users :
        /\ Len(log[id]) = 3
        /\ log[id][1].admitted /\ ~log[id][2].admitted /\ log[id][3].admitted
        /\ log[id][2].now = log[id][1].now + 1
        /\ log[id][3].now = log[id][1].now + RateLimit

\* C13: a gate evaluation whose verification check raised admits the
\* interaction, leaves the user's record (or its absence) as it found it and
\* triggers no start flow.
FailOpen ==
    \A t \in Running :
        t.kind = "gate" /\ t.pc = "done" /\ t.is_allowed = "error" =>
            /\ t.result = "admitted"
            /\ db[t.id] = t.pre
            /\ ~Verified(db, t.id)
            /\ t.fired = 0 /\ ~t.flipped

\* C13 witness: the check raised for an unknown user whose interaction
\* carried a referral code and a username.
FailOpenWitness ==
    \E t \in Running :
        /\ t.kind = "gate" /\ t.pc = "done" /\ t.is_allowed = "error"
        /\ t.pre = None /\ t.referred_by # None /\ t.username # None

\* C18: flyerVerified goes from true to false only by the reset of an abort
\* webhook for that user, and an abort webhook that resolves to a user leaves
\* that user with a record whose flyerVerified is false when it completes.
OnlyAbortUnverifies ==
    /\ [][\A id \in Users :
             Verified(db, id) /\ ~Verified(db', id) =>
                \E t \in Running :
                    /\ t.kind = "hook" /\ t.etype = "abort" /\ t.id = id
                    /\ t.pc = "set_unverified"]_vars
    /\ [](\A t \in Running :
             t.kind = "hook" /\ t.etype = "abort" /\ t.pc = "done" =>
                db[t.id] # None /\ ~Val(db[t.id]).flyer_verified)

\* C18 witness: an abort webhook has completed for a user that was verified.
OnlyAbortUnverifiesWitness ==
    \E t \in Running :
        /\ t.kind = "hook" /\ t.etype = "abort" /\ t.pc = "done"
        /\ t.pre # None /\ Val(t.pre).flyer_verified /\ hist[t.id].reset

\* a completed gate evaluation that presented a candidate for a user whose
\* record, as the evaluation read it, had no referrer
PresentedCandidate(t) ==
    /\ t.kind = "gate" /\ t.pc = "done" /\ t.referred_by # None
    /\ (t.pre = None \/ Val(t.pre).referred_by = None)

\* C15, as claimed: once such an interaction is processed and the user is
\* verified, referredBy is the candidate, also when the user was verified
\* before the interaction.
AttributedOnFirstCandidate ==
    \A t \in Running :
        PresentedCandidate(t) /\ Verified(db, t.id) =>
            Val(db[t.id]).referred_by = t.referred_by

\* C15, amended: when the user is not yet verified as the gate reads the
\* record and the checker allows, the user ends verified with referredBy the
\* candidate; when the user is already verified, the record is left as it is
\* and nothing is attributed.
AttributedUnlessVerified ==
    \A t \in Running :
        PresentedCandidate(t) =>
            IF t.pre # None /\ Val(t.pre).flyer_verified
            THEN db[t.id] = t.pre /\ t.result = "admitted"
            ELSE t.is_allowed = "allowed" =>
                    Verified(db, t.id) /\ Val(db[t.id]).referred_by = t.referred_by

\* C15 witness: a later interaction of a known, unverified user without a
\* referrer carried the code and was allowed.
AttributedUnlessVerifiedWitness ==
    \E t \in Running :
        /\ PresentedCandidate(t) /\ t.is_allowed = "allowed"
        /\ t.pre # None /\ ~Val(t.pre).flyer_verified

\* C12: every webhook request is answered with the success acknowledgment.
AlwaysAcknowledged ==
    \A t \in Running : t.kind = "hook" /\ t.pc = "done" => t.result = "ok"

\* C14: an interaction the throttle drops has caused no verification check,
\* no write to the user's record and no start flow.
ThrottleBeforeGate ==
    \A t \in Running :
        t.kind = "gate" /\ t.pc = "done" /\ t.result = "throttled" =>
            /\ t.is_allowed = "none"
            /\ db[t.id] = t.pre
            /\ t.fired = 0

\* C16: when a repository write fails in an evaluation the checker allowed,
\* the interaction is still admitted and no start flow is triggered.
WriteFailureStillAdmits ==
    \A t \in Running :
        /\ t.kind = "gate" /\ t.pc = "done" /\ t.is_allowed = "allowed"
        /\ t.failed \in {"create", "assign", "username", "set_verified"}
        => t.result = "admitted" /\ t.fired = 0

\* the value at the first path of paths that is present in payload, JSON
\* null when none is
RECURSIVE first_present(_, _)
first_present(p, paths) ==
    IF paths = <<>> THEN JNull
    ELSE LET w == Lookup(p, Head(paths))
         IN  IF w # None THEN Val(w) ELSE first_present(p, Tail(paths))

\* C17: each extracted field is taken from the first candidate path that is
\* present in the payload, a later path under data or data.user when the
\* flat paths are absent, and is absent only when no candidate path is.
ExtractsFirstPresent ==
    extracted # None =>
        LET p == Val(seen_payload)
            telegram_id == coerce_int(first_present(p, TelegramIdPaths))
        IN  /\ Val(extracted).telegram_id = telegram_id
            /\ telegram_id # None =>
                  /\ Val(extracted).username = username_of(first_present(p, UsernamePaths))
                  /\ Val(extracted).chat_id =
                        Some(chat_id_or(coerce_int(first_present(p, ChatIdPaths)),
                                        Val(telegram_id)))

====
